---- MODULE Spec2Model ----
(***************************************************************************)
(* Field-of-view core of the dungeon crawler: the octant ray generator,    *)
(* the slope-bounded recursive scan, the sparse viewable index and the     *)
(* luminosity state machine of VisionSystem (src/vision.py), together with *)
(* the entity store (src/game.py) and the movement / inventory systems     *)
(* (src/engine.py) that change what a visibility pass sees.                *)
(***************************************************************************)
EXTENDS Integers, Sequences, FiniteSets, TLC

\* ------------------------------------------------------------------------
\* Bounds of the model
\* ------------------------------------------------------------------------
\* curses.COLS and curses.LINES: the size of the terminal the host provides
Cols == 5
Lines == 5
\* number of offsets the ray generator is stepped through on its own
MaxYield == 20
\* the ring up to which a scan call is stepped; a call that would go on
\* beyond it is left unfinished
MaxRing == 8
\* a viewshed_range argument smaller than the default, so that cells fall
\* outside the square
SmallViewshedRange == 1

\* ------------------------------------------------------------------------
\* Program constants
\* ------------------------------------------------------------------------
\* run_square_viewshed(self, game, viewshed_range=5)
DefaultViewshedRange == 5

\* ------------------------------------------------------------------------
\* Components (src/components.py)
\* ------------------------------------------------------------------------
BRIGHT == "BRIGHT"
DIM == "DIM"
HIDDEN == "HIDDEN"
Luminosity == {BRIGHT, DIM, HIDDEN}

Cells == {<<cx, cy>> : cx \in 0..(Cols - 1), cy \in 0..(Lines - 1)}

\* An entity and the components it carries.  x, y belong to Position;
\* opaque, luminosity, terrain belong to Viewable.
Entity(player, backpack, impassable, item, hasPos, x, y, hasView, opaque, terrain) ==
    [player |-> player, backpack |-> backpack, impassable |-> impassable,
     item |-> item, hasPos |-> hasPos, x |-> x, y |-> y,
     hasView |-> hasView, opaque |-> opaque, luminosity |-> HIDDEN,
     terrain |-> terrain]

\* MapSystem.generate_level: a wall tile and a floor tile
WallTile(c) == Entity(FALSE, FALSE, TRUE, FALSE, TRUE, c[1], c[2], TRUE, TRUE, TRUE)
FloorTile(c) == Entity(FALSE, FALSE, FALSE, FALSE, TRUE, c[1], c[2], TRUE, FALSE, TRUE)
\* dungeon_crawler: an item lying on the floor, and the player
ItemEntity(c) == Entity(FALSE, FALSE, FALSE, TRUE, TRUE, c[1], c[2], TRUE, FALSE, FALSE)
PlayerEntity(c, hasView) == Entity(TRUE, TRUE, FALSE, FALSE, TRUE, c[1], c[2], hasView, FALSE, FALSE)

\* Entity.has for the trait sets the systems query
HasPositionViewable(e) == e.hasPos /\ e.hasView
HasPlayerPositionViewable(e) == e.player /\ e.hasPos /\ e.hasView

Range(s) == {s[n] : n \in DOMAIN s}

\* ------------------------------------------------------------------------
\* Octant ray generator (iter_octant)
\* ------------------------------------------------------------------------
Octants == 1..8

\* range(n) and reversed(s)
RangeSeq(n) == [m \in 1..n |-> m - 1]
Reversed(s) == [m \in 1..Len(s) |-> s[Len(s) + 1 - m]]

\* the generator expression of each branch, for loop value i in ring k
OctantOffset(index, i, k) ==
    CASE index = 1 -> <<-i, k>>
      [] index = 2 -> <<i, k>>
      [] index = 3 -> <<k, i>>
      [] index = 4 -> <<k, -i>>
      [] index = 5 -> <<i, -k>>
      [] index = 6 -> <<-i, -k>>
      [] index = 7 -> <<-k, -i>>
      [] index = 8 -> <<-k, i>>

\* a slip: range(k + 1) is not reversed
RingOffsets_not_reversed(index, k) ==
    IF index \in Octants
    THEN [n \in 1..(k + 1) |-> OctantOffset(index, RangeSeq(k + 1)[n], k)]
    ELSE << >>

\* the offsets one pass of the while loop yields: ring k, in order
RingOffsets(index, k) ==
    IF index \in Octants
    THEN [n \in 1..(k + 1) |-> OctantOffset(index, Reversed(RangeSeq(k + 1))[n], k)]
    ELSE << >>

\* ------------------------------------------------------------------------
\* Slope functions.  A slope is an exact fraction num/den with den > 0, or
\* float("inf"); the quotients of small integers compare with 0 and 0.5
\* exactly as these fractions do.
\* ------------------------------------------------------------------------
Inf == [inf |-> TRUE, num |-> 1, den |-> 1]
Frac(n, d) == IF d < 0 THEN [inf |-> FALSE, num |-> -n, den |-> -d]
                       ELSE [inf |-> FALSE, num |-> n, den |-> d]

inverse_slope(a, b) ==
    IF a[2] = b[2] THEN Inf ELSE Frac(b[1] - a[1], b[2] - a[2])

slope(a, b) ==
    IF a[1] = b[1] THEN Inf ELSE Frac(b[2] - a[2], b[1] - a[1])

\* m < n on slopes
SlopeLess(m, n) ==
    IF m.inf THEN FALSE
    ELSE IF n.inf THEN TRUE
    ELSE m.num * n.den < n.num * m.den

\* slope_range: None (the default), or a pair (low, high)
NoSlopeRange == [none |-> TRUE, low |-> Frac(0, 1), high |-> Frac(0, 1)]
\* a slip: the range (-1, 0.5)
SubSlopeRange_from_minus_one == [none |-> FALSE, low |-> Frac(-1, 1), high |-> Frac(1, 2)]
\* the slope range (0, 0.5) a sub-scan is given
SubSlopeRange == [none |-> FALSE, low |-> Frac(0, 1), high |-> Frac(1, 2)]

\* ------------------------------------------------------------------------
\* Sparse viewable index (class Viewables).  A Viewable is named by the
\* index of the entity that owns it.  strict marks a plain dict, as
\* test_scan passes to scan: looking up a missing key raises KeyError.
\* ------------------------------------------------------------------------
\* a slip: vs[key] = [viewable] whether or not the key is present
index_add_overwrites(kvs, key, n) ==
    [c \in (DOMAIN kvs) \cup {key} |-> IF c = key THEN <<n>> ELSE kvs[c]]

\* try: vs[key].append(viewable) / except KeyError: vs[key] = [viewable]
index_add(kvs, key, n) ==
    IF key \in DOMAIN kvs
    THEN [kvs EXCEPT ![key] = Append(@, n)]
    ELSE [c \in (DOMAIN kvs) \cup {key} |-> IF c = key THEN <<n>> ELSE kvs[c]]

RECURSIVE from_game_loop(_, _, _)
\* the loop over game.iter_traits(Position, Viewable), from entity n on
from_game_loop(ents, n, kvs) ==
    IF n > Len(ents) THEN kvs
    ELSE IF ~HasPositionViewable(ents[n]) THEN from_game_loop(ents, n + 1, kvs)
    ELSE from_game_loop(ents, n + 1, index_add(kvs, <<ents[n].x, ents[n].y>>, n))

EmptyDict == [c \in {} |-> << >>]

from_game(ents) == [kvs |-> from_game_loop(ents, 1, EmptyDict), strict |-> FALSE]

RaisesKeyError(vs, key) == vs.strict /\ key \notin DOMAIN vs.kvs

GetItem(vs, key) == IF key \in DOMAIN vs.kvs THEN vs.kvs[key] ELSE << >>

\* ------------------------------------------------------------------------
\* Octant scanner (scan)
\* ------------------------------------------------------------------------
\* a slip: the right and bottom edges are not tested
screen_bounds_no_far_edges(x, y) == (x < 0) \/ (y < 0)

\* curses.COLS x curses.LINES screen
screen_bounds(x, y) == (x < 0) \/ (y < 0) \/ (x >= Cols) \/ (y >= Lines)

\* the bounds check test_scan passes: lambda x, y: (y > 3)
test_bounds(x, y) == y > 3

BoundsCheck(bc, x, y) == IF bc = "screen" THEN screen_bounds(x, y) ELSE test_bounds(x, y)

\* "Limit scan to between two rays": TRUE when the point is skipped
OutsideSlopeRange(octant, x, y, i, j, slope_range) ==
    LET a == <<x, y>>
        b == <<x + i, y + j>>
        m == IF octant \in {1, 2, 5, 6} THEN inverse_slope(a, b) ELSE slope(a, b)
    IN  SlopeLess(m, slope_range.low) \/ SlopeLess(slope_range.high, m)

\* a slip: a bounds failure continues with the next offset
PointOutcome_skips_out_of_bounds(octant, x, y, i, j, slope_range, bc) ==
    IF BoundsCheck(bc, x + i, y + j) THEN "continue"
    ELSE IF ~slope_range.none /\ OutsideSlopeRange(octant, x, y, i, j, slope_range) THEN "continue"
    ELSE "gather"

\* What the loop body does with the generated offset (i, j) before it
\* gathers: a bounds failure breaks, a point outside the slope range
\* continues.
PointOutcome(octant, x, y, i, j, slope_range, bc) ==
    IF BoundsCheck(bc, x + i, y + j) THEN "break"
    ELSE IF ~slope_range.none /\ OutsideSlopeRange(octant, x, y, i, j, slope_range) THEN "continue"
    ELSE "gather"

\* wall = any(viewable.opaque for viewable in viewables[x + i, y + j])
IsWall(ents, here) == \E n \in DOMAIN here : ents[here[n]].opaque

\* a slip: the octant is not tested
Recurses_in_every_octant(octant, wall) == wall

\* a wall starts a sub-scan only in octant 1
Recurses(octant, wall) == wall /\ octant = 1

\* a slip: i is tested in every octant
RingBreak_tests_i_only(octant, i, j, wall_seen) == i = 0 /\ wall_seen

\* the break at the end of the loop body
RingBreak(octant, i, j, wall_seen) ==
    IF octant \in {1, 2, 5, 6} THEN i = 0 /\ wall_seen
    ELSE IF octant \in {3, 4, 7, 8} THEN j = 0 /\ wall_seen
    ELSE FALSE

Ok(seen) == [err |-> FALSE, seen |-> seen]
Raised == [err |-> TRUE, seen |-> << >>]

RECURSIVE scan_loop(_, _, _, _, _, _, _, _, _, _, _)
RECURSIVE scan(_, _, _, _, _, _, _)

\* The for loop of scan at the n-th offset of ring k, with the locals
\* slope_range, wall_seen and seen as they are at that iteration.
scan_loop(octant, x, y, vs, ents, slope_range, bc, k, n, wall_seen, seen) ==
    LET pt == RingOffsets(octant, k)[n]
        i == pt[1]
        j == pt[2]
        nk == IF n = k + 1 THEN k + 1 ELSE k
        nn == IF n = k + 1 THEN 1 ELSE n + 1
        outcome == PointOutcome(octant, x, y, i, j, slope_range, bc)
        key == <<x + i, y + j>>
        here == GetItem(vs, key)
        wall == IsWall(ents, here)
        range2 == IF Recurses(octant, wall) THEN SubSlopeRange ELSE slope_range
        sub == IF Recurses(octant, wall)
               THEN scan(octant, x + i - 1, y + j, vs, ents, range2, bc)
               ELSE Ok(<< >>)
        seen2 == seen \o here \o sub.seen
        wall_seen2 == wall_seen \/ wall
    IN  CASE outcome = "break" -> Ok(seen)
          [] outcome = "continue" ->
                scan_loop(octant, x, y, vs, ents, slope_range, bc, nk, nn, wall_seen, seen)
          [] outcome = "gather" ->
                IF RaisesKeyError(vs, key) THEN Raised
                ELSE IF sub.err THEN Raised
                ELSE IF RingBreak(octant, i, j, wall_seen2) THEN Ok(seen2)
                ELSE scan_loop(octant, x, y, vs, ents, range2, bc, nk, nn, wall_seen2, seen2)

\* a slip: the rings start at k = 0, the origin itself
scan_from_ring_zero(octant, x, y, vs, ents, slope_range, bc) ==
    IF octant \notin Octants THEN Ok(<< >>)
    ELSE scan_loop(octant, x, y, vs, ents, slope_range, bc, 0, 1, FALSE, << >>)

scan(octant, x, y, vs, ents, slope_range, bc) ==
    IF octant \notin Octants THEN Ok(<< >>)
    ELSE scan_loop(octant, x, y, vs, ents, slope_range, bc, 1, 1, FALSE, << >>)

\* scan called with x = y = None: the first offset the generator yields
\* reaches bounds_check(x + i, y + j), and None + int raises TypeError
scan_none(octant) == IF octant \in Octants THEN Raised ELSE Ok(<< >>)

\* ------------------------------------------------------------------------
\* Visibility system (class VisionSystem)
\* ------------------------------------------------------------------------
NoPosition == [none |-> TRUE, x |-> 0, y |-> 0]

\* the (x, y) of the first entity with Position, Player and Viewable, or
\* (None, None)
RECURSIVE first_player_from(_, _)
first_player_from(ents, n) ==
    IF n > Len(ents) THEN NoPosition
    ELSE IF HasPlayerPositionViewable(ents[n])
         THEN [none |-> FALSE, x |-> ents[n].x, y |-> ents[n].y]
         ELSE first_player_from(ents, n + 1)

get_player_position(ents) == first_player_from(ents, 1)

\* a slip: every viewable fades to DIM
DimLevel_always_dim(viewable) == DIM

\* the luminosity a BRIGHT viewable of the old seen list is given
DimLevel(viewable) == IF viewable.terrain THEN DIM ELSE HIDDEN

\* a slip: the dim step is left out
dim_seen_viewables_skipped(ents, seen) == ents

\* a slip: every BRIGHT viewable is dimmed, not only those in self.seen
dim_seen_viewables_dims_all(ents, seen) ==
    [n \in DOMAIN ents |->
        IF ents[n].hasView /\ ents[n].luminosity = BRIGHT
        THEN [ents[n] EXCEPT !.luminosity = DimLevel(ents[n])]
        ELSE ents[n]]

dim_seen_viewables(ents, seen) ==
    [n \in DOMAIN ents |->
        IF n \in Range(seen) /\ ents[n].luminosity = BRIGHT
        THEN [ents[n] EXCEPT !.luminosity = DimLevel(ents[n])]
        ELSE ents[n]]

\* "Illuminate seen viewables"
illuminate(ents, seen) ==
    [n \in DOMAIN ents |->
        IF n \in Range(seen) THEN [ents[n] EXCEPT !.luminosity = BRIGHT] ELSE ents[n]]

RECURSIVE scan_octants(_, _, _, _, _)
\* seen += scan(octant, x, y, viewables) for octant, octant + 1, ..., 8
scan_octants(octant, pos, vs, ents, seen) ==
    IF octant > 8 THEN Ok(seen)
    ELSE LET r == IF pos.none THEN scan_none(octant)
                  ELSE scan(octant, pos.x, pos.y, vs, ents, NoSlopeRange, "screen")
         IN  IF r.err THEN Raised
             ELSE scan_octants(octant + 1, pos, vs, ents, seen \o r.seen)

run_algorithm(pos, ents) == scan_octants(1, pos, from_game(ents), ents, << >>)

\* a slip: the old seen list is dimmed after the new one is lit
run_shadow_casting_dims_last(ents, seen) ==
    LET pos == get_player_position(ents)
        r == run_algorithm(pos, ents)
    IN  IF r.err
        THEN [entities |-> ents, seen |-> seen, status |-> "error"]
        ELSE [entities |-> dim_seen_viewables(illuminate(ents, r.seen), seen),
              seen |-> r.seen, status |-> "ok"]

\* One call of run_shadow_casting on the entities and the stored seen list:
\* the entities and seen list it leaves, and whether it raised.  An
\* exception in run_algorithm leaves the dimming done and self.seen as it
\* was.
run_shadow_casting(ents, seen) ==
    LET pos == get_player_position(ents)
        dimmed == dim_seen_viewables(ents, seen)
        r == run_algorithm(pos, dimmed)
    IN  IF r.err
        THEN [entities |-> dimmed, seen |-> seen, status |-> "error"]
        ELSE [entities |-> illuminate(dimmed, r.seen), seen |-> r.seen, status |-> "ok"]

\* a slip: the terrain test is left out
SquareLevel_no_terrain_test(e, player_x, player_y, viewshed_range) ==
    LET abs(v) == IF v < 0 THEN -v ELSE v
    IN  IF abs(e.x - player_x) <= viewshed_range /\ abs(e.y - player_y) <= viewshed_range
        THEN BRIGHT
        ELSE IF e.luminosity = BRIGHT THEN DIM
        ELSE e.luminosity

\* a slip: < for <= in the radius test
SquareLevel_strict_radius(e, player_x, player_y, viewshed_range) ==
    LET abs(v) == IF v < 0 THEN -v ELSE v
    IN  IF abs(e.x - player_x) < viewshed_range /\ abs(e.y - player_y) < viewshed_range
        THEN BRIGHT
        ELSE IF ~e.terrain THEN HIDDEN
        ELSE IF e.luminosity = BRIGHT THEN DIM
        ELSE e.luminosity

\* the inner loop body of run_square_viewshed for one (position, viewable)
SquareLevel(e, player_x, player_y, viewshed_range) ==
    LET abs(v) == IF v < 0 THEN -v ELSE v
    IN  IF abs(e.x - player_x) <= viewshed_range /\ abs(e.y - player_y) <= viewshed_range
        THEN BRIGHT
        ELSE IF ~e.terrain THEN HIDDEN
        ELSE IF e.luminosity = BRIGHT THEN DIM
        ELSE e.luminosity

\* the outer loop body for the n-th entity, when it is a player
square_for_player(ents, n, viewshed_range) ==
    LET lit == [ents EXCEPT ![n].luminosity = BRIGHT]
    IN  [m \in DOMAIN lit |->
            IF HasPositionViewable(lit[m])
            THEN [lit[m] EXCEPT !.luminosity =
                     SquareLevel(lit[m], lit[n].x, lit[n].y, viewshed_range)]
            ELSE lit[m]]

RECURSIVE square_loop(_, _, _)
square_loop(ents, n, viewshed_range) ==
    IF n > Len(ents) THEN ents
    ELSE IF HasPlayerPositionViewable(ents[n])
         THEN square_loop(square_for_player(ents, n, viewshed_range), n + 1, viewshed_range)
         ELSE square_loop(ents, n + 1, viewshed_range)

run_square_viewshed(ents, viewshed_range) == square_loop(ents, 1, viewshed_range)

\* ------------------------------------------------------------------------
\* Movement and inventory (src/engine.py)
\* ------------------------------------------------------------------------
\* MovementSystem(width=curses.COLS, height=curses.LINES).passable, with
\* impassable_tiles as cache_impassable fills it
passable(ents, x, y) ==
    ~ \E n \in DOMAIN ents :
        ents[n].impassable /\ ents[n].hasPos /\ ents[n].x + Cols * ents[n].y = x + Cols * y

Directions == {"up", "down", "left", "right"}

\* try_up, try_down, try_left, try_right on the Position of entity n
try_move(ents, n, dir) ==
    LET x0 == ents[n].x
        y0 == ents[n].y
        x == CASE dir = "left" -> IF x0 - 1 >= 0 THEN x0 - 1 ELSE x0
               [] dir = "right" -> IF x0 + 1 < Cols THEN x0 + 1 ELSE x0
               [] OTHER -> x0
        y == CASE dir = "up" -> IF y0 - 1 >= 0 THEN y0 - 1 ELSE y0
               [] dir = "down" -> IF y0 + 1 < Lines THEN y0 + 1 ELSE y0
               [] OTHER -> y0
    IN  IF passable(ents, x, y) THEN [ents EXCEPT ![n].x = x, ![n].y = y] ELSE ents

\* InventorySystem.try_pick_up: every item at a player's position loses
\* its Position
try_pick_up(ents) ==
    [n \in DOMAIN ents |->
        IF /\ ents[n].item /\ ents[n].hasPos
           /\ \E m \in DOMAIN ents :
                /\ ents[m].player /\ ents[m].backpack /\ ents[m].hasPos
                /\ ents[m].x = ents[n].x /\ ents[m].y = ents[n].y
        THEN [ents[n] EXCEPT !.hasPos = FALSE, !.x = 0, !.y = 0]
        ELSE ents[n]]

\* ------------------------------------------------------------------------
\* The game as a state machine: the main loop of dungeon_crawler.  Each
\* turn of the loop runs a visibility pass and then handles one key; a key
\* that changes nothing leads straight to the next pass.
\* ------------------------------------------------------------------------
VARIABLES
    entities,      \* Game.entities with their components
    seen,          \* VisionSystem.seen
    status,        \* "ok", or "error" once a pass has raised
    last,          \* the operation that produced this state
    passes,        \* shadow-casting passes run since the last other operation (at most 2)
    gen,           \* an iter_octant generator stepped on its own
    call,          \* the arguments of the scan call being stepped through
    stack,         \* the frames of that call and of its sub-scans, innermost last
    calls,         \* the number of scan calls started
    log,           \* what each scan call did with each offset it was handed
    result         \* the outcome of the stepped scan call

gameVars == <<entities, seen, status, last, passes>>
scanVars == <<call, stack, calls, log, result>>
vars == <<entities, seen, status, last, passes, gen, call, stack, calls, log, result>>

Center == <<Cols \div 2, Lines \div 2>>
\* the cell of the map tile that is either a wall or open floor
MapCell == <<Cols \div 2, (Lines \div 2) + 1>>
\* the cells the second viewable starts on
ProbeCells == {Center, MapCell, <<0, Lines - 1>>}

\* Levels: a map tile (wall or floor), then a floor tile or an item, then
\* the player, with or without a Viewable
Layouts ==
    {<<tile, probe, PlayerEntity(Center, hasView)>> :
        tile \in {WallTile(MapCell), FloorTile(MapCell)},
        probe \in {FloorTile(p) : p \in ProbeCells} \cup {ItemEntity(p) : p \in ProbeCells},
        hasView \in BOOLEAN}

\* no generator and no scan call is being stepped
GenIdle == gen = [index |-> 0, k |-> 1, n |-> 1, yielded |-> << >>, finished |-> TRUE]
NoCall == [octant |-> 0, x |-> 0, y |-> 0, vs |-> [kvs |-> EmptyDict, strict |-> FALSE],
           bc |-> "screen"]
ScanIdle ==
    /\ call = NoCall
    /\ stack = << >>
    /\ calls = 0
    /\ log = << >>
    /\ result = [state |-> "idle", seen |-> << >>]

GameStart ==
    /\ seen = << >>
    /\ status = "ok"
    /\ last = "init"
    /\ passes = 0

Init ==
    /\ entities \in Layouts
    /\ GameStart
    /\ GenIdle
    /\ ScanIdle

VisibilityPasses == {"shadow_casting", "square_viewshed"}

\* VisionSystem.run / run_shadow_casting
ShadowCasting ==
    /\ status = "ok"
    /\ \E r \in {run_shadow_casting(entities, seen)} :
          /\ entities' = r.entities
          /\ seen' = r.seen
          /\ status' = r.status
    /\ last' = "shadow_casting"
    /\ passes' = IF passes < 2 THEN passes + 1 ELSE 2
    /\ UNCHANGED <<gen, scanVars>>

\* VisionSystem.run_square_viewshed
SquareViewshed ==
    /\ status = "ok"
    /\ \E viewshed_range \in {SmallViewshedRange, DefaultViewshedRange} :
          entities' = run_square_viewshed(entities, viewshed_range)
    /\ last' = "square_viewshed"
    /\ passes' = 0
    /\ UNCHANGED <<seen, status, gen, scanVars>>

\* the human turn: a key h, j, k, l moves the player's Position
Move ==
    /\ status = "ok"
    /\ last \in VisibilityPasses
    /\ \E n \in DOMAIN entities, dir \in Directions :
          /\ entities[n].player /\ entities[n].hasPos
          /\ entities' = try_move(entities, n, dir)
    /\ last' = "move"
    /\ passes' = 0
    /\ UNCHANGED <<seen, status, gen, scanVars>>

\* the key p
PickUp ==
    /\ status = "ok"
    /\ last \in VisibilityPasses
    /\ entities' = try_pick_up(entities)
    /\ last' = "pick_up"
    /\ passes' = 0
    /\ UNCHANGED <<seen, status, gen, scanVars>>

NextShadow == ShadowCasting \/ Move \/ PickUp
Next == ShadowCasting \/ SquareViewshed \/ Move \/ PickUp

\* passes of either kind interleaved with moves
Spec == Init /\ [][Next]_vars
\* shadow-casting passes interleaved with moves
SpecShadow == Init /\ [][NextShadow]_vars

\* ------------------------------------------------------------------------
\* iter_octant as a generator: each step is one next() on it
\* ------------------------------------------------------------------------
InitIter ==
    /\ entities = << >>
    /\ GameStart
    /\ ScanIdle
    /\ \E index \in 0..9 :
          gen = [index |-> index, k |-> 1, n |-> 1, yielded |-> << >>, finished |-> FALSE]

\* the cursor after the n-th offset of ring k: "k += 1" after the last one
NextCursor(k, n) == IF n = k + 1 THEN <<k + 1, 1>> ELSE <<k, n + 1>>

\* next() yields the n-th offset of ring k
GenYield ==
    /\ ~gen.finished
    /\ gen.index \in Octants
    /\ Len(gen.yielded) < MaxYield
    /\ gen' = [gen EXCEPT !.yielded = Append(@, RingOffsets(gen.index, gen.k)[gen.n]),
                          !.k = NextCursor(gen.k, gen.n)[1],
                          !.n = NextCursor(gen.k, gen.n)[2]]
    /\ UNCHANGED <<gameVars, scanVars>>

\* "else: break": an index outside 1..8 ends the generator
GenStop ==
    /\ ~gen.finished
    /\ gen.index \notin Octants
    /\ gen' = [gen EXCEPT !.finished = TRUE]
    /\ UNCHANGED <<gameVars, scanVars>>

NextIter == GenYield \/ GenStop
SpecIter == InitIter /\ [][NextIter]_vars

\* ------------------------------------------------------------------------
\* scan stepped one loop iteration at a time, with its call stack
\* ------------------------------------------------------------------------
\* the viewables and the dict of test_scan; entity n owns viewable n
TestScanEntities ==
    <<ItemEntity(<<-2, 3>>), ItemEntity(<<-1, 3>>), ItemEntity(<<0, 3>>),
      ItemEntity(<<-1, 2>>),
      [ItemEntity(<<-1, 1>>) EXCEPT !.opaque = TRUE]>>

TestScanDict ==
    [kvs |-> [c \in {<<-2, 3>>, <<-1, 3>>, <<0, 3>>, <<-2, 2>>, <<-1, 2>>, <<0, 2>>,
                     <<-1, 1>>, <<0, 1>>} |->
                CASE c = <<-2, 3>> -> <<1>>
                  [] c = <<-1, 3>> -> <<2>>
                  [] c = <<0, 3>> -> <<3>>
                  [] c = <<-1, 2>> -> <<4>>
                  [] c = <<-1, 1>> -> <<5>>
                  [] OTHER -> << >>],
     strict |-> TRUE]

\* the cell of a second map tile, where a sub-scan started at MapCell finds it
MapCell2 == <<MapCell[1] - 1, MapCell[2] + 1>>

\* Levels to scan: two map tiles, each a wall or open floor, and an item
ScanLayouts ==
    {<<tile, tile2, ItemEntity(p)>> :
        tile \in {WallTile(MapCell), FloorTile(MapCell)},
        tile2 \in {WallTile(MapCell2), FloorTile(MapCell2)},
        p \in ProbeCells}

Frame(id, octant, x, y, slope_range) ==
    [id |-> id, octant |-> octant, x |-> x, y |-> y, slope_range |-> slope_range,
     k |-> 1, n |-> 1, wall_seen |-> FALSE, seen |-> << >>, phase |-> "loop"]

StartCall(octant, x, y, vs, bc) ==
    /\ call = [octant |-> octant, x |-> x, y |-> y, vs |-> vs, bc |-> bc]
    /\ stack = <<Frame(1, octant, x, y, NoSlopeRange)>>
    /\ calls = 1
    /\ log = << >>
    /\ result = [state |-> "running", seen |-> << >>]

InitScan ==
    /\ GameStart
    /\ GenIdle
    /\ \/ /\ entities \in ScanLayouts
          /\ \E octant \in Octants, c \in Cells :
                StartCall(octant, c[1], c[2], from_game(entities), "screen")
       \/ /\ entities = TestScanEntities
          /\ \E octant \in {1, 2} : StartCall(octant, 0, 0, TestScanDict, "test")

Top == stack[Len(stack)]
Offset(f) == RingOffsets(f.octant, f.k)[f.n]
Running == result.state = "running" /\ stack # << >>
Looping == Running /\ Top.phase = "loop" /\ Top.k <= MaxRing
TopOutcome ==
    PointOutcome(Top.octant, Top.x, Top.y, Offset(Top)[1], Offset(Top)[2],
                 Top.slope_range, call.bc)
TopKey == <<Top.x + Offset(Top)[1], Top.y + Offset(Top)[2]>>

Event(f, outcome, gathered, wall) ==
    [id |-> f.id, octant |-> f.octant, x |-> f.x, y |-> f.y, k |-> f.k, n |-> f.n,
     i |-> Offset(f)[1], j |-> Offset(f)[2], ranged |-> ~f.slope_range.none,
     outcome |-> outcome, gathered |-> gathered, wall |-> wall,
     wall_seen |-> f.wall_seen]

Advance(f) == [f EXCEPT !.k = NextCursor(f.k, f.n)[1], !.n = NextCursor(f.k, f.n)[2]]

\* "return seen" of the innermost call: the caller's "seen += scan(...)",
\* or the result of the outermost call
Return(value) ==
    IF Len(stack) = 1
    THEN /\ stack' = << >>
         /\ result' = [state |-> "done", seen |-> value]
    ELSE /\ stack' = [SubSeq(stack, 1, Len(stack) - 1) EXCEPT
                         ![Len(stack) - 1].seen = @ \o value,
                         ![Len(stack) - 1].phase = "after_call"]
         /\ UNCHANGED result

\* "wall_seen = wall_seen | wall" and the ring-termination test that end
\* the loop body for frame f at a point where wall was computed
FinishPoint(f, wall) ==
    LET g == [f EXCEPT !.wall_seen = @ \/ wall, !.phase = "loop"]
    IN  IF RingBreak(g.octant, Offset(g)[1], Offset(g)[2], g.wall_seen)
        THEN Return(g.seen)
        ELSE /\ stack' = [stack EXCEPT ![Len(stack)] = Advance(g)]
             /\ UNCHANGED result

\* "if bounds_check(x + i, y + j): break"
ScanBreak ==
    /\ Looping
    /\ TopOutcome = "break"
    /\ log' = Append(log, Event(Top, "break", << >>, FALSE))
    /\ Return(Top.seen)
    /\ UNCHANGED <<gameVars, gen, call, calls>>

\* "continue": the point lies outside the slope range
ScanSkip ==
    /\ Looping
    /\ TopOutcome = "continue"
    /\ log' = Append(log, Event(Top, "continue", << >>, FALSE))
    /\ stack' = [stack EXCEPT ![Len(stack)] = Advance(Top)]
    /\ UNCHANGED <<gameVars, gen, call, calls, result>>

\* viewables[x + i, y + j] on a plain dict without that key
ScanKeyError ==
    /\ Looping
    /\ TopOutcome = "gather"
    /\ RaisesKeyError(call.vs, TopKey)
    /\ log' = Append(log, Event(Top, "KeyError", << >>, FALSE))
    /\ stack' = << >>
    /\ result' = [state |-> "error", seen |-> << >>]
    /\ UNCHANGED <<gameVars, gen, call, calls>>

\* the point is gathered and starts no sub-scan
ScanGather ==
    /\ Looping
    /\ TopOutcome = "gather"
    /\ ~RaisesKeyError(call.vs, TopKey)
    /\ LET here == GetItem(call.vs, TopKey)
           wall == IsWall(entities, here)
       IN  /\ ~Recurses(Top.octant, wall)
           /\ log' = Append(log, Event(Top, "gather", here, wall))
           /\ FinishPoint([Top EXCEPT !.seen = @ \o here], wall)
    /\ UNCHANGED <<gameVars, gen, call, calls>>

\* the point is gathered, slope_range is set to (0, 0.5) and the sub-scan
\* is called
ScanRecurse ==
    /\ Looping
    /\ TopOutcome = "gather"
    /\ ~RaisesKeyError(call.vs, TopKey)
    /\ LET here == GetItem(call.vs, TopKey)
           wall == IsWall(entities, here)
       IN  /\ Recurses(Top.octant, wall)
           /\ log' = Append(log, Event(Top, "recurse", here, wall))
           /\ stack' = Append([stack EXCEPT ![Len(stack)] =
                                  [Top EXCEPT !.seen = @ \o here,
                                              !.slope_range = SubSlopeRange,
                                              !.phase = "calling"]],
                              Frame(calls + 1, Top.octant, TopKey[1] - 1, TopKey[2],
                                    SubSlopeRange))
           /\ calls' = calls + 1
    /\ UNCHANGED <<gameVars, gen, call, result>>

\* the sub-scan has returned: the rest of the loop body at the wall
ScanAfterCall ==
    /\ Running
    /\ Top.phase = "after_call"
    /\ FinishPoint(Top, TRUE)
    /\ UNCHANGED <<gameVars, gen, call, calls, log>>

NextScan ==
    ScanBreak \/ ScanSkip \/ ScanKeyError \/ ScanGather \/ ScanRecurse \/ ScanAfterCall
SpecScan == InitScan /\ [][NextScan]_vars
\* the interpreter runs every loop iteration of a call in progress
SpecScanFair == InitScan /\ [][NextScan]_vars /\ WF_vars(NextScan)

\* ------------------------------------------------------------------------
\* Properties of the visibility system
\* ------------------------------------------------------------------------
WithViewable == {n \in DOMAIN entities : entities[n].hasView}
PassCompleted == last = "shadow_casting" /\ status = "ok"

\* C1: at the end of every completed shadow-casting pass, in runs of
\* shadow-casting passes and moves from an all-HIDDEN start, a Viewable is
\* BRIGHT if and only if it is in the seen list the pass stored.
C1_BrightIffSeen ==
    PassCompleted =>
        \A n \in WithViewable : entities[n].luminosity = BRIGHT <=> n \in Range(seen)

\* a pass that lit something while a viewable lit by an earlier pass has
\* faded
C1_Witness ==
    /\ PassCompleted
    /\ seen # << >>
    /\ \E n \in WithViewable : entities[n].luminosity = DIM /\ n \notin Range(seen)

\* C2: in a shadow-casting pass a Viewable that is BRIGHT and in the old
\* seen list but not in the new one ends DIM when it is terrain and HIDDEN
\* when it is not.
C2_Decay ==
    [][(status = "ok" /\ last' = "shadow_casting") =>
          \A n \in WithViewable :
             (entities[n].luminosity = BRIGHT /\ n \in Range(seen) /\ n \notin Range(seen'))
                => entities'[n].luminosity = (IF entities[n].terrain THEN "DIM" ELSE "HIDDEN")]_vars

\* a pass has just dropped a terrain viewable from the seen list
C2_Witness ==
    /\ PassCompleted
    /\ \E n \in WithViewable :
          entities[n].terrain /\ entities[n].luminosity = DIM /\ n \notin Range(seen)

\* C3: through passes of both kinds and moves, no Viewable with
\* terrain = false is DIM.
C3_NonTerrainNeverDim ==
    \A n \in WithViewable : ~entities[n].terrain => entities[n].luminosity # DIM

\* a square viewshed has faded a terrain viewable and hidden a non-terrain
\* one that the stored seen list still holds
C3_Witness ==
    /\ last = "square_viewshed"
    /\ \E n \in WithViewable : entities[n].terrain /\ entities[n].luminosity = DIM
    /\ \E n \in WithViewable :
          ~entities[n].terrain /\ entities[n].luminosity = HIDDEN /\ n \in Range(seen)

\* C4: a second shadow-casting pass run with nothing changed since the
\* first stores the same seen list, in the same order, and leaves every
\* Viewable's luminosity as the first pass left it.
C4_Idempotent ==
    [][(last = "shadow_casting" /\ last' = "shadow_casting" /\ status' = "ok") =>
          /\ seen' = seen
          /\ \A n \in WithViewable : entities'[n].luminosity = entities[n].luminosity]_vars

\* two passes in succession, with something lit and something faded
C4_Witness ==
    /\ passes = 2
    /\ status = "ok"
    /\ seen # << >>
    /\ \E n \in WithViewable : entities[n].luminosity = DIM

\* C6: in the 5x5 open room with the viewer at the centre, a
\* shadow-casting pass leaves every Viewable inside the grid BRIGHT, those
\* on the viewer's cell included, and no terrain Viewable DIM.
C6_OpenRoomAllBright ==
    (/\ PassCompleted
     /\ Cols = 5 /\ Lines = 5
     /\ \A n \in WithViewable : ~entities[n].opaque
     /\ \E n \in DOMAIN entities :
           HasPlayerPositionViewable(entities[n]) /\ <<entities[n].x, entities[n].y>> = <<2, 2>>)
    => /\ \A n \in WithViewable :
             (entities[n].hasPos /\ <<entities[n].x, entities[n].y>> \in Cells)
                => entities[n].luminosity = BRIGHT
       /\ \A n \in WithViewable : entities[n].terrain => entities[n].luminosity # DIM

\* C7: with no entity that has Player, Position and Viewable, a
\* shadow-casting pass does not fail part-way through.
C7_MissingViewerNoFailure ==
    get_player_position(entities).none => status # "error"

\* C9: the index maps every coordinate to the Viewables of the entities
\* that have Position and Viewable there, in entity order; a coordinate
\* nobody occupies gives the empty list and no failure.
C9_IndexLookup ==
    LET vs == from_game(entities)
        EntityOrder == [n \in 1..Len(entities) |-> n]
        Around == {<<cx, cy>> : cx \in -1..Cols, cy \in -1..Lines}
    IN  \A c \in Around :
           LET At(n) == entities[n].hasPos /\ entities[n].hasView
                           /\ entities[n].x = c[1] /\ entities[n].y = c[2]
           IN  /\ ~RaisesKeyError(vs, c)
               /\ GetItem(vs, c) = SelectSeq(EntityOrder, At)

\* two Viewables share a coordinate while an entity with a Viewable has no
\* Position
C9_Witness ==
    /\ \E c \in Cells : Len(GetItem(from_game(entities), c)) >= 2
    /\ \E c \in Cells : GetItem(from_game(entities), c) = << >>
    /\ \E n \in WithViewable : ~entities[n].hasPos

\* ------------------------------------------------------------------------
\* Properties of the scanner and the ray generator
\* ------------------------------------------------------------------------
\* C5: the octant-1 scan of test_scan returns exactly the Viewables at
\* the wall cell (-1, 1).
C5_TestScanResult ==
    (entities = TestScanEntities /\ call.octant = 1 /\ result.state = "done")
        => result.seen = GetItem(TestScanDict, <<-1, 1>>)

\* the number of offsets in rings 1 .. k-1
OffsetsBefore(k) == ((k - 1) * (k + 2)) \div 2
\* the ring the m-th offset belongs to when rings come in increasing order
\* and ring k has k + 1 offsets
RingOf(m) == CHOOSE k \in 1..m : OffsetsBefore(k) < m /\ m <= OffsetsBefore(k + 1)
\* the m-th offset by the octant table: the primary axis fixed at +k or
\* -k, the swept coordinate of magnitude k, k-1, ..., 0
TableOffset(index, m) ==
    LET k == RingOf(m)
        mag == k - (m - OffsetsBefore(k) - 1)
    IN  CASE index = 1 -> <<-mag, k>>
          [] index = 2 -> <<mag, k>>
          [] index = 3 -> <<k, mag>>
          [] index = 4 -> <<k, -mag>>
          [] index = 5 -> <<mag, -k>>
          [] index = 6 -> <<-mag, -k>>
          [] index = 7 -> <<-k, -mag>>
          [] index = 8 -> <<-k, mag>>
IsPrefix(s, t) == Len(s) <= Len(t) /\ \A m \in DOMAIN s : s[m] = t[m]
Comparable(s, t) == IsPrefix(s, t) \/ IsPrefix(t, s)

\* C8: for every octant the generator yields ring 1, 2, 3, ... in order,
\* each whole before the next; ring k is k + 1 offsets with the primary
\* coordinate fixed at +k or -k and the swept one running from magnitude k
\* down to 0.
C8_RingOrder ==
    gen.index \in Octants =>
        /\ \A m \in DOMAIN gen.yielded : gen.yielded[m] = TableOffset(gen.index, m)
        /\ gen.index = 1 =>
              Comparable(gen.yielded, <<<<-1, 1>>, <<0, 1>>, <<-2, 2>>, <<-1, 2>>, <<0, 2>>>>)
        /\ gen.index = 3 =>
              Comparable(gen.yielded, <<<<1, 1>>, <<1, 0>>, <<2, 2>>, <<2, 1>>, <<2, 0>>>>)

\* three whole rings have been yielded
C8_Witness == gen.index \in Octants /\ Len(gen.yielded) >= 9

\* C10: the first generated point that fails the bounds check ends the
\* call: nothing is gathered from it and the call handles no later point.
C10_BoundsFailureStops ==
    \A a \in DOMAIN log :
        BoundsCheck(call.bc, log[a].x + log[a].i, log[a].y + log[a].j) =>
            /\ log[a].gathered = << >>
            /\ \A b \in DOMAIN log : b > a => log[b].id # log[a].id

\* a call was ended by a point out of bounds while a later point of the
\* same ring lay inside the bounds and held a Viewable
C10_Witness ==
    \E a \in DOMAIN log :
        /\ log[a].outcome = "break"
        /\ \E n \in (log[a].n + 1)..(log[a].k + 1) :
              LET o == RingOffsets(log[a].octant, log[a].k)[n]
                  px == log[a].x + o[1]
                  py == log[a].y + o[2]
              IN  /\ ~BoundsCheck(call.bc, px, py)
                  /\ GetItem(call.vs, <<px, py>>) # << >>

\* ------------------------------------------------------------------------
\* Properties of the square viewshed
\* ------------------------------------------------------------------------
Distance(a, b) == IF a < b THEN b - a ELSE a - b
\* entity n has a Position within Chebyshev distance r of entity p
Within(n, p, r) ==
    /\ Distance(entities[n].x, entities[p].x) <= r
    /\ Distance(entities[n].y, entities[p].y) <= r

\* C11: after run_square_viewshed with one player, every Viewable within
\* Chebyshev distance viewshed_range of the player is BRIGHT, every
\* non-terrain Viewable outside it is HIDDEN, and a terrain Viewable
\* outside it is DIM if it was BRIGHT and unchanged if it was DIM or HIDDEN.
C11_SquareViewshed ==
    [][\A r \in {SmallViewshedRange, DefaultViewshedRange} :
          \A p \in DOMAIN entities :
             (/\ last' = "square_viewshed"
              /\ entities' = run_square_viewshed(entities, r)
              /\ HasPlayerPositionViewable(entities[p]))
             => \A n \in WithViewable :
                   entities[n].hasPos =>
                      IF Within(n, p, r)
                      THEN entities'[n].luminosity = "BRIGHT"
                      ELSE IF ~entities[n].terrain
                      THEN entities'[n].luminosity = "HIDDEN"
                      ELSE /\ entities'[n].luminosity # "BRIGHT"
                           /\ entities[n].luminosity = "BRIGHT"
                                 => entities'[n].luminosity = "DIM"
                           /\ entities[n].luminosity # "BRIGHT"
                                 => entities'[n].luminosity = entities[n].luminosity]_vars

\* a square viewshed of the small range has lit a Viewable next to the
\* player and faded a terrain Viewable beyond the range
C11_Witness ==
    /\ last = "square_viewshed"
    /\ \E p \in DOMAIN entities :
          /\ HasPlayerPositionViewable(entities[p])
          /\ \E n \in WithViewable \ {p} :
                /\ entities[n].hasPos /\ Within(n, p, SmallViewshedRange)
                /\ entities[n].luminosity = BRIGHT
          /\ \E n \in WithViewable :
                /\ entities[n].hasPos /\ ~Within(n, p, SmallViewshedRange)
                /\ entities[n].terrain /\ entities[n].luminosity = DIM

\* ------------------------------------------------------------------------
\* Termination of the scanner
\* ------------------------------------------------------------------------
\* C12: on a finite screen, from every viewer position and with every
\* placement of walls, every scan call's loop over the unending octant
\* sequence ends and the octant-1 recursion stays of finite depth: the
\* call returns.
C12_ScanTerminates ==
    (call.bc = "screen") ~> (result.state = "done" /\ stack = << >>)

\* a screen scan has returned after a sub-scan that started a sub-scan
C12_Witness ==
    /\ call.bc = "screen"
    /\ result.state = "done"
    /\ calls >= 3

\* ------------------------------------------------------------------------
\* Properties of the loop body of scan
\* ------------------------------------------------------------------------
\* the events of the outermost call, which is made with slope_range = None
Outermost(a) == log[a].id = 1
Gathered(a) == log[a].outcome \in {"gather", "recurse"}
\* the swept coordinate of the offset: i in octants 1, 2, 5, 6, else j
Swept(a) == IF log[a].octant \in {1, 2, 5, 6} THEN log[a].i ELSE log[a].j

\* C13: a scan call made with slope_range = None skips no point: every
\* point it is handed before it stops is gathered, also after it has
\* processed an opaque cell.
C13_NoneRangeNeverSkips ==
    \A a \in DOMAIN log : Outermost(a) => log[a].outcome # "continue"

SameCall(a, b) == log[a].id = log[b].id
LastOfCall(a) == \A b \in DOMAIN log : b > a => ~SameCall(a, b)

\* C14: once a scan call has processed a point holding an opaque Viewable
\* in ring k, it stops after the point of ring k with swept coordinate 0
\* and handles no point of a later ring; a point with swept coordinate 0
\* reached before any opaque point was processed does not stop the call.
C14_RingTermination ==
    /\ \A a \in DOMAIN log :
          (Gathered(a) /\ log[a].wall) =>
             /\ \A b \in DOMAIN log :
                   (b >= a /\ SameCall(a, b)) =>
                      /\ log[b].k = log[a].k
                      /\ (Swept(b) = 0 /\ Gathered(b)) => LastOfCall(b)
             /\ result.state = "done" =>
                   \E b \in DOMAIN log :
                      /\ b >= a /\ SameCall(a, b) /\ log[b].k = log[a].k
                      /\ Swept(b) = 0 /\ Gathered(b) /\ LastOfCall(b)
    /\ \A a \in DOMAIN log :
          (/\ result.state = "done"
           /\ Gathered(a) /\ Swept(a) = 0
           /\ ~log[a].wall_seen /\ ~log[a].wall)
          => ~LastOfCall(a)

\* a returned scan in which one call passed a point with swept
\* coordinate 0 before any wall, then met a wall off the axis and went on
\* to the end of that ring
C14_Witness ==
    /\ result.state = "done"
    /\ \E a, b, c \in DOMAIN log :
          /\ a < b /\ b < c /\ SameCall(a, b) /\ SameCall(b, c)
          /\ Gathered(a) /\ Swept(a) = 0 /\ ~log[a].wall
          /\ Gathered(b) /\ log[b].wall /\ Swept(b) # 0
          /\ Gathered(c) /\ Swept(c) = 0 /\ log[c].k = log[b].k

\* the absolute coordinate of the point of event a
PointOf(a) == <<log[a].x + log[a].i, log[a].y + log[a].j>>
\* some Viewable at the point of event a is opaque
OpaqueAt(a) ==
    \E m \in DOMAIN GetItem(call.vs, PointOf(a)) :
        entities[GetItem(call.vs, PointOf(a))[m]].opaque

RECURSIVE WalkedViewables(_)
\* the Viewables at the points of events 1 .. a that lie inside the
\* bounds, in the order the points were generated
WalkedViewables(a) ==
    IF a = 0 THEN << >>
    ELSE WalkedViewables(a - 1) \o
            (IF BoundsCheck(call.bc, PointOf(a)[1], PointOf(a)[2])
             THEN << >> ELSE GetItem(call.vs, PointOf(a)))

\* C15: a scan call starts a sub-scan exactly when it processes a point
\* holding an opaque Viewable and its octant is 1; scans of octants 2 to 8
\* never recurse and return exactly the Viewables at the points they walk,
\* in generation order.
C15_RecursionOnlyInOctantOne ==
    /\ \A a \in DOMAIN log :
          log[a].outcome = "recurse" <=> (Gathered(a) /\ OpaqueAt(a) /\ log[a].octant = 1)
    /\ result.state # "idle" =>
          calls = 1 + Cardinality({a \in DOMAIN log : log[a].outcome = "recurse"})
    /\ call.octant \in 2..8 =>
          /\ calls <= 1
          /\ result.state = "done" => result.seen = WalkedViewables(Len(log))

\* a returned scan of an octant other than 1 that gathered a wall and
\* a Viewable after it
C15_Witness ==
    /\ result.state = "done"
    /\ call.octant \in 2..8
    /\ \E a, b \in DOMAIN log :
          /\ a < b /\ Gathered(a) /\ OpaqueAt(a)
          /\ Gathered(b) /\ log[b].gathered # << >>

\* ------------------------------------------------------------------------
\* Frame of a shadow-casting pass
\* ------------------------------------------------------------------------
\* C16: a shadow-casting pass writes only luminosity, and only on
\* Viewables of the old or the new seen list: a Viewable in neither keeps
\* its luminosity, and no opaque or terrain flag, no Position and no other
\* component changes.
C16_PassWritesOnlyLuminosity ==
    [][last' = "shadow_casting" =>
          /\ DOMAIN entities' = DOMAIN entities
          /\ \A n \in DOMAIN entities :
                /\ entities'[n] =
                      [entities[n] EXCEPT !.luminosity = entities'[n].luminosity]
                /\ n \notin (Range(seen) \cup Range(seen'))
                      => entities'[n].luminosity = entities[n].luminosity]_vars

\* after a completed pass a Viewable lit by a square viewshed, in neither
\* seen list, is still BRIGHT while another one has been dimmed
C16_Witness ==
    /\ PassCompleted
    /\ \E n \in WithViewable : entities[n].luminosity = BRIGHT /\ n \notin Range(seen)
    /\ \E n \in WithViewable : entities[n].luminosity = DIM

\* ------------------------------------------------------------------------
\* Sub-scans of octant 1
\* ------------------------------------------------------------------------
IsRecurse(e) == e.outcome = "recurse"
\* the event at which call number id was started: calls are numbered in
\* the order they start
StartOf(id) == SelectSeq(log, IsRecurse)[id - 1]

\* C17: an octant-1 sub-scan started for an opaque cell at (wx, wy) has
\* origin (wx - 1, wy) and slope range (0, 0.5); it skips every point with
\* a nonzero swept offset, so what it gathers itself lies in the column
\* x = wx - 1 at rows y > wy.
C17_SubScanColumn ==
    /\ \A d \in 2..Len(stack) :
          /\ stack[d].octant = 1
          /\ stack[d].slope_range =
                [none |-> FALSE,
                 low |-> [inf |-> FALSE, num |-> 0, den |-> 1],
                 high |-> [inf |-> FALSE, num |-> 1, den |-> 2]]
    /\ \A b \in DOMAIN log :
          log[b].id > 1 =>
             LET w == StartOf(log[b].id)
                 wx == w.x + w.i
                 wy == w.y + w.j
             IN  /\ \E m \in DOMAIN GetItem(call.vs, <<wx, wy>>) :
                       entities[GetItem(call.vs, <<wx, wy>>)[m]].opaque
                 /\ log[b].octant = 1 /\ log[b].ranged
                 /\ log[b].x = wx - 1 /\ log[b].y = wy
                 /\ (log[b].i # 0 /\ ~BoundsCheck(call.bc, PointOf(b)[1], PointOf(b)[2]))
                       => log[b].outcome = "continue"
                 /\ log[b].gathered # << >>
                       => PointOf(b)[1] = wx - 1 /\ PointOf(b)[2] > wy

\* a sub-scan has skipped a point inside the bounds and gathered a
\* Viewable in its column
C17_Witness ==
    \E a, b \in DOMAIN log :
        /\ log[a].id > 1 /\ SameCall(a, b)
        /\ log[a].outcome = "continue"
        /\ Gathered(b) /\ log[b].gathered # << >>

\* ------------------------------------------------------------------------
\* The viewer's own cell
\* ------------------------------------------------------------------------
\* entity n has a Position equal to that of the viewer of the pass
AtViewer(n) ==
    /\ entities[n].hasPos
    /\ ~get_player_position(entities).none
    /\ entities[n].x = get_player_position(entities).x
    /\ entities[n].y = get_player_position(entities).y

\* C18: no shadow-casting pass puts a Viewable located at the viewer's
\* coordinate into the seen list, so the pass sets neither the viewer's own
\* Viewable nor a tile under the viewer BRIGHT.
C18_ViewerCellNotSeen ==
    [][(last' = "shadow_casting" /\ status' = "ok") =>
          \A n \in WithViewable :
             AtViewer(n) =>
                /\ n \notin Range(seen')
                /\ entities'[n].luminosity = "BRIGHT" => entities[n].luminosity = "BRIGHT"]_vars

\* a completed pass that lit something while a tile lies under the viewer
C18_Witness ==
    /\ PassCompleted
    /\ seen # << >>
    /\ \E n \in WithViewable :
          AtViewer(n) /\ entities[n].terrain /\ entities[n].luminosity # BRIGHT

====
